---- MODULE Spec2Model ----
(***************************************************************************)
(* Model of the caddy "lua" HTTP handler module (src/lua.go).              *)
(*                                                                         *)
(* Two parts of the module are modelled:                                   *)
(*   - UnmarshalCaddyfile, the option parser, stepping through the tokens  *)
(*     of one `lua { ... }` directive with the caddyfile Dispenser, and    *)
(*     Validate, applied to the record the parser produced (Spec);         *)
(*   - ServeHTTP, run by concurrent requests against a validated           *)
(*     configuration (SpecServe).                                          *)
(***************************************************************************)
EXTENDS Integers, Sequences, FiniteSets, TLC

\* Largest number of option lines in a directive block.
MaxLines == 2
\* Largest number of arguments following an option keyword on its line.
MaxArgs == 2
\* Number of concurrent requests served.
NumRequests == 2

-----------------------------------------------------------------------------
(* Strings.  TLC cannot index into a string, so the characters of every    *)
(* argument word used in the inputs are tabulated.                         *)

Digits == <<"0", "1", "2", "3", "4", "5", "6", "7", "8", "9">>

Chars(s) ==
  CASE s = "12" -> <<"1", "2">>
    [] s = "-3" -> <<"-", "3">>
    [] s = "h.lua" -> <<"h", ".", "l", "u", "a">>
    [] s = "9223372036854775808" ->
         <<"9", "2", "2", "3", "3", "7", "2", "0", "3", "6",
           "8", "5", "4", "7", "7", "5", "8", "0", "8">>
    [] s = "" -> <<>>

IsDigit(c) == \E d \in 1..10 : Digits[d] = c

DigitVal(c) == (CHOOSE d \in 1..10 : Digits[d] = c) - 1

RECURSIVE StripZeros(_)
StripZeros(ds) ==
  IF Len(ds) > 1 /\ ds[1] = "0" THEN StripZeros(Tail(ds)) ELSE ds

\* Lexicographic comparison of two digit strings of equal length: a >= b.
RECURSIVE DigitsGeq(_, _)
DigitsGeq(a, b) ==
  IF Len(a) = 0 THEN TRUE
  ELSE IF DigitVal(a[1]) > DigitVal(b[1]) THEN TRUE
  ELSE IF DigitVal(a[1]) < DigitVal(b[1]) THEN FALSE
  ELSE DigitsGeq(Tail(a), Tail(b))

\* Magnitude comparison of two digit strings without leading zeros: a >= b.
MagGeq(a, b) ==
  IF Len(a) # Len(b) THEN Len(a) > Len(b) ELSE DigitsGeq(a, b)

\* 1 << 63 as a digit string: the cutoff ParseInt applies for bitSize 64.
Cutoff64 == Chars("9223372036854775808")

RECURSIVE Horner(_, _)
Horner(ds, acc) ==
  IF Len(ds) = 0 THEN acc ELSE Horner(Tail(ds), acc * 10 + DigitVal(ds[1]))

\* strconv.ParseUint(s, 10, 64) followed by ParseInt's sign and range
\* handling.  The magnitude is compared as a digit string, because 2^63 does
\* not fit the model checker's integers; the value is computed only for
\* in-range inputs.  Result: [err |-> "nil" | "syntax" | "range", i |-> value].
ParseIntMutAcceptAll(s) ==
  [err |-> "nil", i |-> 0]

ParseInt(s) ==
  LET cs == Chars(s)
      signed == Len(cs) > 0 /\ cs[1] \in {"+", "-"}
      neg == Len(cs) > 0 /\ cs[1] = "-"
      body == IF signed THEN Tail(cs) ELSE cs
  IN  IF Len(cs) = 0 \/ Len(body) = 0 THEN [err |-> "syntax", i |-> 0]
      ELSE IF \E k \in 1..Len(body) : ~IsDigit(body[k])
        THEN [err |-> "syntax", i |-> 0]
      ELSE LET mag == StripZeros(body)
           IN  IF ~neg /\ MagGeq(mag, Cutoff64) THEN [err |-> "range", i |-> 0]
               ELSE IF neg /\ MagGeq(mag, Cutoff64) /\ mag # Cutoff64
                 THEN [err |-> "range", i |-> 0]
               ELSE [err |-> "nil",
                     i |-> IF neg THEN 0 - Horner(mag, 0) ELSE Horner(mag, 0)]

-----------------------------------------------------------------------------
(* The configuration record and the option keywords.                       *)

IntKeys ==
  {"call_stack_size", "registry_size", "registry_max_size", "registry_grow_step"}

Keys == IntKeys \cup {"minimize_stack_memory", "handler_path"}

\* The zero value of the Lua struct (parseCaddyfile's `var l Lua`).
Lua ==
  [CallStackSize |-> 0, RegistrySize |-> 0, RegistryMaxSize |-> 0,
   RegistryGrowStep |-> 0, MinimizeStackMemory |-> FALSE, HandlerPath |-> ""]

\* An error is a record naming the option and the cause; nil is NoErr.
NoErr == [field |-> "", cause |-> "nil"]

\* Validate has not been called yet.
NotValidated == [field |-> "", cause |-> "none"]

\* d.Errf("%s: %w", field, err): the message starts with the option name.
Errf(field, cause) == [field |-> field, cause |-> cause]

-----------------------------------------------------------------------------
(* Inputs: the blocks of a lua directive.                                  *)

RECURSIVE Rep(_, _)
Rep(w, n) == IF n = 0 THEN <<>> ELSE <<w>> \o Rep(w, n - 1)

IntWords == {"12", "-3", "h.lua", "9223372036854775808"}
PathWords == {"h.lua", ""}
ExtraWords == {"12", "minimize_stack_memory"}

IntArgLists ==
  {<<>>} \cup {<<w>> : w \in IntWords} \cup {Rep("12", n) : n \in 2..MaxArgs}

PathArgLists ==
  {<<>>} \cup {<<w>> : w \in PathWords}
         \cup {<<"h.lua">> \o Rep(e, n) : e \in ExtraWords, n \in 1..(MaxArgs - 1)}

FlagArgLists == {Rep("12", n) : n \in 0..MaxArgs}

Lines ==
  {<<k>> \o a : k \in IntKeys, a \in IntArgLists}
    \cup {<<"handler_path">> \o a : a \in PathArgLists}
    \cup {<<"minimize_stack_memory">> \o a : a \in FlagArgLists}
    \cup {<<"bogus">> \o a : a \in FlagArgLists}

RECURSIVE SeqsUpTo(_, _)
SeqsUpTo(S, n) ==
  IF n = 0 THEN {<<>>}
  ELSE LET shorter == SeqsUpTo(S, n - 1)
       IN  shorter \cup {Append(b, x) : b \in {s \in shorter : Len(s) = n - 1}, x \in S}

Blocks == SeqsUpTo(Lines, MaxLines)

LineTokens(line, ln) == [k \in 1..Len(line) |-> [text |-> line[k], line |-> ln]]

RECURSIVE BodyTokens(_, _)
BodyTokens(block, ln) ==
  IF Len(block) = 0 THEN <<>>
  ELSE LineTokens(block[1], ln) \o BodyTokens(Tail(block), ln + 1)

\* The tokens of  lua {  <one option per line>  }  as the lexer hands them
\* to the directive: the text of each token and the line it is on.
Tokenize(block) ==
  <<[text |-> "lua", line |-> 1], [text |-> "{", line |-> 1]>>
    \o BodyTokens(block, 2)
    \o <<[text |-> "}", line |-> Len(block) + 2]>>

\* A directive with no block at all.
BareDirective == <<[text |-> "lua", line |-> 1]>>

Inputs == {Tokenize(b) : b \in Blocks} \cup {BareDirective}

-----------------------------------------------------------------------------
VARIABLES
  tokens,     \* Dispenser: the tokens of the directive
  cursor,     \* Dispenser: index of the current token, 0 before the first
  nesting,    \* Dispenser: block nesting level
  l,          \* the Lua struct being populated and served
  pc,         \* position in UnmarshalCaddyfile
  err,        \* the error UnmarshalCaddyfile returned (NoErr for nil)
  validated,  \* result of Validate: NotValidated before the call
  reqs,       \* per request: position in ServeHTTP and what it observed
  interps     \* every interpreter state created so far

vars == <<tokens, cursor, nesting, l, pc, err, validated, reqs, interps>>

parseVars == <<tokens, cursor, nesting, l, pc, err, validated>>
serveVars == <<reqs, interps>>

-----------------------------------------------------------------------------
(* The caddyfile Dispenser operations UnmarshalCaddyfile calls.  Each      *)
(* takes the cursor (and nesting) and returns the result with the new      *)
(* cursor.                                                                 *)

\* d.Val()
Val(c) == IF c >= 1 /\ c <= Len(tokens) THEN tokens[c].text ELSE ""

\* d.Next()
Next_(c) ==
  IF c < Len(tokens) THEN [ok |-> TRUE, cursor |-> c + 1]
  ELSE [ok |-> FALSE, cursor |-> c]

\* d.nextOnSameLine()
nextOnSameLine(c) ==
  IF c < 1 THEN [ok |-> TRUE, cursor |-> c + 1]
  ELSE IF c > Len(tokens) THEN [ok |-> FALSE, cursor |-> c]
  ELSE IF c < Len(tokens) /\ tokens[c].line = tokens[c + 1].line
    THEN [ok |-> TRUE, cursor |-> c + 1]
  ELSE [ok |-> FALSE, cursor |-> c]

\* d.NextArg()
NextArg(c) ==
  LET s == nextOnSameLine(c)
  IN  IF ~s.ok THEN [ok |-> FALSE, cursor |-> c]
      ELSE IF Val(s.cursor) = "{" THEN [ok |-> FALSE, cursor |-> s.cursor - 1]
      ELSE [ok |-> TRUE, cursor |-> s.cursor]

\* d.CountRemainingArgs(): counts with NextArg, then moves the cursor back.
RECURSIVE CountRemainingArgs(_)
CountRemainingArgs(c) ==
  LET a == NextArg(c)
  IN  IF a.ok THEN 1 + CountRemainingArgs(a.cursor) ELSE 0

\* d.Args(&s) with one target
Args(c) ==
  LET a == NextArg(c)
  IN  IF a.ok THEN [ok |-> TRUE, cursor |-> a.cursor, val |-> Val(a.cursor)]
      ELSE [ok |-> FALSE, cursor |-> a.cursor, val |-> ""]

\* d.AllArgs(&s) with one target: exactly one argument must remain.
AllArgsMutAtLeastOne(c) ==
  IF CountRemainingArgs(c) < 1 THEN [ok |-> FALSE, cursor |-> c, val |-> ""]
  ELSE Args(c)

AllArgs(c) ==
  IF CountRemainingArgs(c) # 1 THEN [ok |-> FALSE, cursor |-> c, val |-> ""]
  ELSE Args(c)

\* d.NextBlock(0)
NextBlock(c, n) ==
  IF n > 0
    THEN LET nx == Next_(c)
         IN  IF ~nx.ok THEN [ok |-> FALSE, cursor |-> c, nesting |-> n]
             ELSE LET c1 == nx.cursor
                      closing == Val(c1) = "}"
                      s1 == IF closing THEN nextOnSameLine(c1)
                            ELSE [ok |-> TRUE, cursor |-> c1]
                      c2 == s1.cursor
                      dec == closing /\ ~s1.ok
                      opening == ~dec /\ Val(c2) = "{"
                      s2 == IF opening THEN nextOnSameLine(c2)
                            ELSE [ok |-> TRUE, cursor |-> c2]
                      n2 == IF dec THEN n - 1
                            ELSE IF opening /\ ~s2.ok THEN n + 1 ELSE n
                  IN  [ok |-> n2 > 0, cursor |-> s2.cursor, nesting |-> n2]
  ELSE LET s == nextOnSameLine(c)
       IN  IF ~s.ok THEN [ok |-> FALSE, cursor |-> c, nesting |-> n]
           ELSE IF Val(s.cursor) # "{"
             THEN [ok |-> FALSE, cursor |-> s.cursor - 1, nesting |-> n]
           ELSE LET c1 == Next_(s.cursor).cursor
                IN  IF Val(c1) = "}"
                      THEN [ok |-> FALSE, cursor |-> c1, nesting |-> n]
                    ELSE [ok |-> TRUE, cursor |-> c1, nesting |-> n + 1]

-----------------------------------------------------------------------------
(* UnmarshalCaddyfile                                                      *)

\* The asInt closure: one argument, parsed in base 10 into 64 bits.  int(i)
\* keeps the value: int is 64 bits wide on the platforms the server targets.
\* Result: [err |-> "nil" | "args" | "syntax" | "range", i, cursor].
asInt(c) ==
  LET a == AllArgs(c)
      p == ParseInt(a.val)
  IN  IF ~a.ok THEN [err |-> "args", i |-> 0, cursor |-> a.cursor]
      ELSE IF p.err # "nil" THEN [err |-> p.err, i |-> 0, cursor |-> a.cursor]
      ELSE [err |-> "nil", i |-> p.i, cursor |-> a.cursor]

\* return d.Errf(...): the call ends with an error and the struct as it is.
ReturnErr(e) ==
  /\ pc' = "done"
  /\ err' = e
  /\ UNCHANGED <<tokens, nesting, l, validated>>

\* for d.Next() { ... }  /  return nil
OuterNext ==
  /\ pc = "outer"
  /\ LET nx == Next_(cursor)
     IN  /\ cursor' = nx.cursor
         /\ pc' = IF nx.ok THEN "inner" ELSE "done"
  /\ UNCHANGED <<tokens, nesting, l, err, validated, serveVars>>

\* for d.NextBlock(0) { ... }
InnerNextBlock ==
  /\ pc = "inner"
  /\ LET nb == NextBlock(cursor, nesting)
     IN  /\ cursor' = nb.cursor
         /\ nesting' = nb.nesting
         /\ pc' = IF nb.ok THEN "switch" ELSE "outer"
  /\ UNCHANGED <<tokens, l, err, validated, serveVars>>

\* i, err := asInt(); if err != nil { return d.Errf(...) }; l.<fld> = i
\* The body shared by the four integer cases.
IntCase(key, fld) ==
  LET r == asInt(cursor)
  IN  /\ cursor' = r.cursor
      /\ IF r.err # "nil"
           THEN ReturnErr(Errf(key, r.err))
           ELSE /\ l' = [l EXCEPT ![fld] = r.i]
                /\ pc' = "inner"
                /\ UNCHANGED <<tokens, nesting, err, validated>>

\* case "call_stack_size"
CaseCallStackSize ==
  /\ pc = "switch"
  /\ Val(cursor) = "call_stack_size"
  /\ IntCase("call_stack_size", "CallStackSize")
  /\ UNCHANGED serveVars

\* case "registry_size"
CaseRegistrySize ==
  /\ pc = "switch"
  /\ Val(cursor) = "registry_size"
  /\ IntCase("registry_size", "RegistrySize")
  /\ UNCHANGED serveVars

\* case "registry_max_size"
CaseRegistryMaxSize ==
  /\ pc = "switch"
  /\ Val(cursor) = "registry_max_size"
  /\ IntCase("registry_max_size", "RegistryMaxSize")
  /\ UNCHANGED serveVars

\* case "registry_grow_step"
CaseRegistryGrowStep ==
  /\ pc = "switch"
  /\ Val(cursor) = "registry_grow_step"
  /\ IntCase("registry_grow_step", "RegistryGrowStep")
  /\ UNCHANGED serveVars

\* case "minimize_stack_memory": arguments are rejected; nothing is assigned.
CaseMinimizeStackMemory ==
  /\ pc = "switch"
  /\ Val(cursor) = "minimize_stack_memory"
  /\ IF CountRemainingArgs(cursor) > 0
       THEN ReturnErr(Errf("minimize_stack_memory", "args"))
       ELSE /\ pc' = "inner"
            /\ UNCHANGED <<tokens, nesting, l, err, validated>>
  /\ UNCHANGED <<cursor, serveVars>>

\* case "handler_path": d.Args(&l.HandlerPath)
CaseHandlerPath ==
  /\ pc = "switch"
  /\ Val(cursor) = "handler_path"
  /\ LET a == Args(cursor)
     IN  /\ cursor' = a.cursor
         /\ IF ~a.ok
              THEN ReturnErr(Errf("handler_path", "args"))
              ELSE /\ l' = [l EXCEPT !.HandlerPath = a.val]
                   /\ pc' = "inner"
                   /\ UNCHANGED <<tokens, nesting, err, validated>>
  /\ UNCHANGED serveVars

\* default: unknown configuration option
UnknownErrMutIgnore(field) == NoErr

UnknownErr(field) == Errf(field, "unknown")

CaseDefault ==
  /\ pc = "switch"
  /\ Val(cursor) \notin Keys
  /\ ReturnErr(UnknownErr(Val(cursor)))
  /\ UNCHANGED <<cursor, serveVars>>

-----------------------------------------------------------------------------
(* Validate                                                                *)

ValidateMutAlsoStack(cfg) ==
  IF cfg.HandlerPath = "" \/ cfg.CallStackSize = 0
    THEN Errf("handler_path", "required") ELSE NoErr

Validate(cfg) ==
  IF cfg.HandlerPath = "" THEN Errf("handler_path", "required") ELSE NoErr

\* The host validates the module once the directive has been parsed.
DoValidate ==
  /\ pc = "done"
  /\ err = NoErr
  /\ validated = NotValidated
  /\ validated' = Validate(l)
  /\ UNCHANGED <<tokens, cursor, nesting, l, pc, err, serveVars>>

-----------------------------------------------------------------------------
(* ServeHTTP                                                               *)

Requests == 1..NumRequests

\* Outcomes of L.DoFile and of next.ServeHTTP: nil or an error.
ScriptResults == {"nil", "script error"}
NextResults == {"nil", "next error"}

\* lua.NewState() is called without options: the interpreter gets the
\* library's defaults.
DefaultOptions ==
  [CallStackSize |-> 256, RegistrySize |-> 5120, RegistryMaxSize |-> 0,
   RegistryGrowStep |-> 32, MinimizeStackMemory |-> FALSE]

\* A request before ServeHTTP is entered: its response writer and request,
\* and nothing observed yet.
NewRequest(i) ==
  [pc |-> "idle", w |-> 10 + i, r |-> 20 + i, L |-> 0,
   doFile |-> 0, scriptErr |-> "nil", nextCalls |-> <<>>, nextRet |-> "nil",
   result |-> "nil", ret |-> "none"]

\* L := lua.NewState(): a new interpreter, known to this request only.
NewStateMutShared(i) ==
  IF Len(interps) = 0 THEN Len(interps) + 1 ELSE 1

NewState(i) == Len(interps) + 1

ServeNewState(i) ==
  /\ reqs[i].pc = "idle"
  /\ LET k == NewState(i)
     IN  /\ interps' =
              IF k > Len(interps)
                THEN Append(interps,
                            [creator |-> i, open |-> TRUE, closes |-> 0,
                             users |-> {i}, loaded |-> <<>>,
                             opts |-> DefaultOptions])
                ELSE [interps EXCEPT ![k].users = @ \cup {i}]
         /\ reqs' = [reqs EXCEPT ![i].pc = "dofile", ![i].L = k]
  /\ UNCHANGED parseVars

\* Where ServeHTTP goes after DoFile returned res.
AfterDoFileMutAlwaysNext(res) == "next"

AfterDoFile(res) == IF res # "nil" THEN "defer" ELSE "next"

\* The value ServeHTTP is about to return when DoFile returned res.
ResultOfDoFileMutSwallow(res) == "nil"

ResultOfDoFile(res) == res

\* err := L.DoFile(l.HandlerPath); if err != nil { return err }
ServeDoFile(i) ==
  /\ reqs[i].pc = "dofile"
  /\ \E res \in ScriptResults :
       /\ interps' = [interps EXCEPT ![reqs[i].L].loaded = Append(@, l.HandlerPath)]
       /\ reqs' = [reqs EXCEPT ![i].pc = AfterDoFile(res),
                               ![i].doFile = @ + 1,
                               ![i].scriptErr = res,
                               ![i].result = ResultOfDoFile(res)]
  /\ UNCHANGED parseVars

\* The value ServeHTTP returns when the next handler returned res.
ResultOfNextMutSwallow(res) == "nil"

ResultOfNext(res) == res

\* return next.ServeHTTP(w, r)
ServeNext(i) ==
  /\ reqs[i].pc = "next"
  /\ \E res \in NextResults :
       reqs' = [reqs EXCEPT ![i].pc = "defer",
                            ![i].nextCalls = Append(@, [w |-> reqs[i].w, r |-> reqs[i].r]),
                            ![i].nextRet = res,
                            ![i].result = ResultOfNext(res)]
  /\ UNCHANGED <<interps, parseVars>>

\* defer L.Close(): runs on every way out of ServeHTTP.
ServeClose(i) ==
  /\ reqs[i].pc = "defer"
  /\ interps' = [interps EXCEPT ![reqs[i].L].open = FALSE,
                                ![reqs[i].L].closes = @ + 1]
  /\ reqs' = [reqs EXCEPT ![i].pc = "return"]
  /\ UNCHANGED parseVars

\* ServeHTTP returns to the server.
ServeReturn(i) ==
  /\ reqs[i].pc = "return"
  /\ reqs' = [reqs EXCEPT ![i].pc = "returned", ![i].ret = reqs[i].result]
  /\ UNCHANGED <<interps, parseVars>>

-----------------------------------------------------------------------------
(* Specifications                                                          *)

\* parseCaddyfile: a zero Lua and a Dispenser in front of the first token.
Init ==
  /\ tokens \in Inputs
  /\ cursor = 0
  /\ nesting = 0
  /\ l = Lua
  /\ pc = "outer"
  /\ err = NoErr
  /\ validated = NotValidated
  /\ reqs = [i \in Requests |-> NewRequest(i)]
  /\ interps = <<>>

Next ==
  \/ OuterNext
  \/ InnerNextBlock
  \/ CaseCallStackSize
  \/ CaseRegistrySize
  \/ CaseRegistryMaxSize
  \/ CaseRegistryGrowStep
  \/ CaseMinimizeStackMemory
  \/ CaseHandlerPath
  \/ CaseDefault
  \/ DoValidate

Spec == Init /\ [][Next]_vars

\* Directives that parse and validate, with the record they produce.
ServeInputs ==
  {[block |-> <<<<"handler_path", "h.lua">>>>,
    cfg |-> [Lua EXCEPT !.HandlerPath = "h.lua"]],
   [block |-> <<<<"call_stack_size", "12">>, <<"handler_path", "h.lua">>>>,
    cfg |-> [Lua EXCEPT !.HandlerPath = "h.lua", !.CallStackSize = 12]],
   [block |-> <<<<"handler_path", "h.lua">>, <<"minimize_stack_memory">>>>,
    cfg |-> [Lua EXCEPT !.HandlerPath = "h.lua"]]}

\* The module after a directive was parsed and validated: requests arrive.
InitServe ==
  /\ \E in \in ServeInputs :
       /\ tokens = Tokenize(in.block)
       /\ cursor = Len(Tokenize(in.block))
       /\ l = in.cfg
  /\ nesting = 0
  /\ pc = "done"
  /\ err = NoErr
  /\ validated = NoErr
  /\ reqs = [i \in Requests |-> NewRequest(i)]
  /\ interps = <<>>

NextServe ==
  \E i \in Requests :
    \/ ServeNewState(i)
    \/ ServeDoFile(i)
    \/ ServeNext(i)
    \/ ServeClose(i)
    \/ ServeReturn(i)

SpecServe == InitServe /\ [][NextServe]_vars

\* The states InitServe starts from are states the parser reaches.
ServeInputsReached ==
  \A in \in ServeInputs :
    (tokens = Tokenize(in.block) /\ validated # NotValidated)
      => /\ validated = NoErr
         /\ l = in.cfg
         /\ cursor = Len(tokens)
         /\ nesting = 0

-----------------------------------------------------------------------------
(* The directive as written: its option lines, read off the tokens by      *)
(* line, independently of the Dispenser.                                   *)

\* Positions of the option keywords: the first token of every body line.
OptionPositions ==
  {p \in 3..(Len(tokens) - 1) : tokens[p].line # tokens[p - 1].line}

\* The arguments written after the keyword at p, on its line.
ArgsAt(p) ==
  LET n == Cardinality({q \in (p + 1)..Len(tokens) : tokens[q].line = tokens[p].line})
  IN  [k \in 1..n |-> tokens[p + k].text]

\* The argument words that are base-10 integers fitting 64 bits, with their
\* values, and those that are not.
IntOf(w) == CASE w = "12" -> 12 [] w = "-3" -> 0 - 3

WellFormedIntWords == {"12", "-3"}

MalformedIntWords == {"h.lua", "9223372036854775808", ""}

WellFormedAt(p) ==
  LET key == tokens[p].text
      args == ArgsAt(p)
  IN  \/ key \in IntKeys /\ Len(args) = 1 /\ args[1] \in WellFormedIntWords
      \/ key = "minimize_stack_memory" /\ Len(args) = 0
      \/ key = "handler_path" /\ Len(args) = 1

MinOf(S) == CHOOSE x \in S : \A y \in S : x <= y
MaxOf(S) == CHOOSE x \in S : \A y \in S : x >= y

\* Positions of the options with keyword key written before position upto.
Before(key, upto) ==
  {p \in OptionPositions : tokens[p].text = key /\ p < upto}

End == Len(tokens) + 1

ExpectedInt(key) ==
  IF Before(key, End) = {} THEN 0
  ELSE IntOf(ArgsAt(MaxOf(Before(key, End)))[1])

ExpectedPath ==
  IF Before("handler_path", End) = {} THEN ""
  ELSE ArgsAt(MaxOf(Before("handler_path", End)))[1]

FieldOf(key) ==
  CASE key = "call_stack_size" -> "CallStackSize"
    [] key = "registry_size" -> "RegistrySize"
    [] key = "registry_max_size" -> "RegistryMaxSize"
    [] key = "registry_grow_step" -> "RegistryGrowStep"
    [] key = "minimize_stack_memory" -> "MinimizeStackMemory"
    [] key = "handler_path" -> "HandlerPath"

UnknownPositions == {p \in OptionPositions : tokens[p].text \notin Keys}

-----------------------------------------------------------------------------
(* Claims about UnmarshalCaddyfile and Validate (Spec)                     *)

\* C1: for a block made only of well-formed options, after
\* UnmarshalCaddyfile returns nil every field holds the value given for its
\* keyword (the integer, TRUE for a present minimize_stack_memory, the path)
\* and every field whose keyword is absent keeps its zero value.
C1_RoundTrip ==
  (pc = "done" /\ err = NoErr /\ \A p \in OptionPositions : WellFormedAt(p))
    => /\ l.CallStackSize = ExpectedInt("call_stack_size")
       /\ l.RegistrySize = ExpectedInt("registry_size")
       /\ l.RegistryMaxSize = ExpectedInt("registry_max_size")
       /\ l.RegistryGrowStep = ExpectedInt("registry_grow_step")
       /\ l.MinimizeStackMemory = (Before("minimize_stack_memory", End) # {})
       /\ l.HandlerPath = ExpectedPath

\* C6: Validate returns an error if and only if HandlerPath is the empty
\* string, whatever the other five fields hold.
C6_ValidateIffEmptyPath ==
  validated # NotValidated => ((validated # NoErr) <=> (l.HandlerPath = ""))

\* C6 witness: a record with a path and a zero call stack size was validated
\* and passed.
C6_Witness ==
  /\ validated = NoErr
  /\ l.HandlerPath = "h.lua"
  /\ l.CallStackSize = 0
  /\ l.RegistrySize = 12

\* What C7 says of the first unknown option at p once the call has ended:
\* the error names it, parsing stopped on it, and no option written after it
\* was applied.
StoppedAtUnknown(p) ==
  /\ err = Errf(tokens[p].text, "unknown")
  /\ cursor = p
  /\ \A key \in IntKeys : Before(key, p) = {} => l[FieldOf(key)] = 0
  /\ Before("handler_path", p) = {} => l.HandlerPath = ""
  /\ Before("minimize_stack_memory", p) = {} => l.MinimizeStackMemory = FALSE

\* C7 as stated: for every block containing an option that is not one of the
\* six keys, UnmarshalCaddyfile returns an error naming that option, having
\* stopped at the first such option and applied nothing after it.
C7_UnknownAlwaysNamed ==
  (pc = "done" /\ UnknownPositions # {})
    => StoppedAtUnknown(MinOf(UnknownPositions))

\* C7 amended: every block containing an unknown option fails to parse; when
\* all options written before the first unknown one are well-formed, the
\* error names that option, parsing stopped on it, and nothing after it was
\* applied.
C7_FirstErrorUnknownNamed ==
  (pc = "done" /\ UnknownPositions # {})
    => /\ err # NoErr
       /\ (\A q \in OptionPositions : q < MinOf(UnknownPositions) => WellFormedAt(q))
            => StoppedAtUnknown(MinOf(UnknownPositions))

\* C7 witness: parsing ended on an unknown option, and the handler_path
\* option written after it was not applied.
C7_Witness ==
  /\ pc = "done"
  /\ err = Errf("bogus", "unknown")
  /\ Val(cursor) = "bogus"
  /\ \E p \in OptionPositions :
       /\ p > cursor
       /\ tokens[p].text = "handler_path"
       /\ Len(ArgsAt(p)) = 1
  /\ l.HandlerPath = ""

\* The call ended on the option under the cursor with an error naming it,
\* and assigned nothing.
FailsNaming(key) ==
  /\ pc' = "done"
  /\ err' # NoErr
  /\ err'.field = key
  /\ l' = l

\* C8: when an integer option whose single argument is not a base-10 integer
\* fitting 64 bits is processed, UnmarshalCaddyfile returns an error naming
\* the option and the field keeps the value it had before.
C8_MalformedIntFails ==
  [][\A key \in IntKeys :
       (/\ pc = "switch"
        /\ Val(cursor) = key
        /\ Len(ArgsAt(cursor)) = 1
        /\ ArgsAt(cursor)[1] \in MalformedIntWords)
         => FailsNaming(key)]_vars

\* C8 witness: registry_size was set to 12, then given an out-of-range
\* argument; the call failed naming it and the field is still 12.
C8_Witness ==
  /\ pc = "done"
  /\ err = Errf("registry_size", "range")
  /\ l.RegistrySize = 12

\* C10: when an integer option with zero or more than one argument, a
\* handler_path with zero arguments or a minimize_stack_memory with one or
\* more arguments is processed, UnmarshalCaddyfile returns an error naming
\* the option and assigns nothing.
C10_ArityEnforced ==
  [][\A key \in Keys :
       (/\ pc = "switch"
        /\ Val(cursor) = key
        /\ \/ key \in IntKeys /\ Len(ArgsAt(cursor)) # 1
           \/ key = "handler_path" /\ Len(ArgsAt(cursor)) = 0
           \/ key = "minimize_stack_memory" /\ Len(ArgsAt(cursor)) >= 1)
         => FailsNaming(key)]_vars

\* C10 witness: call_stack_size was given two arguments; the call failed
\* naming it and the field was not assigned.
C10_Witness ==
  /\ pc = "done"
  /\ err = Errf("call_stack_size", "args")
  /\ Len(ArgsAt(cursor)) = 2
  /\ l.CallStackSize = 0

-----------------------------------------------------------------------------
(* Claims about ServeHTTP (SpecServe)                                      *)

Returned(i) == reqs[i].pc = "returned"

\* The script of request i was loaded from handler_path into its interpreter.
RanScriptOnce(i) ==
  /\ reqs[i].doFile = 1
  /\ reqs[i].L \in 1..Len(interps)
  /\ l.HandlerPath \in {interps[reqs[i].L].loaded[k] :
                          k \in 1..Len(interps[reqs[i].L].loaded)}

\* C2 as stated: every request runs the script at handler_path and then
\* calls the next handler exactly once, whatever the outcome of the script.
C2_NextUnconditional ==
  \A i \in Requests :
    /\ Returned(i) => RanScriptOnce(i) /\ Len(reqs[i].nextCalls) = 1
    /\ reqs[i].nextCalls # <<>> => reqs[i].doFile = 1

\* C2 amended: every request runs the script at handler_path once; the next
\* handler is called exactly once, after the script, when the script
\* succeeded, and is not called when the script failed.
C2_NextIffScriptOk ==
  \A i \in Requests :
    /\ Returned(i) =>
         /\ RanScriptOnce(i)
         /\ Len(reqs[i].nextCalls) = (IF reqs[i].scriptErr = "nil" THEN 1 ELSE 0)
    /\ reqs[i].nextCalls # <<>> => reqs[i].doFile = 1
    /\ Len(reqs[i].nextCalls) <= 1

\* C2 witness: one request returned after a failed script without calling
\* the next handler, another after a successful script and one call.
C2_Witness ==
  \E i, j \in Requests :
    /\ Returned(i) /\ reqs[i].scriptErr # "nil" /\ reqs[i].nextCalls = <<>>
    /\ Returned(j) /\ reqs[j].scriptErr = "nil" /\ Len(reqs[j].nextCalls) = 1

\* C3: when DoFile succeeds, ServeHTTP calls the next handler exactly once,
\* only after the script has finished, with the request's own response
\* writer and request, and returns exactly what the next handler returned.
C3_WorkingScriptProceeds ==
  \A i \in Requests :
    /\ (Returned(i) /\ reqs[i].scriptErr = "nil")
         => /\ reqs[i].nextCalls = <<[w |-> reqs[i].w, r |-> reqs[i].r]>>
            /\ reqs[i].ret = reqs[i].nextRet
    /\ reqs[i].nextCalls # <<>>
         => /\ reqs[i].doFile = 1
            /\ reqs[i].scriptErr = "nil"
            /\ Len(reqs[i].nextCalls) = 1

\* C3 witness: a request whose script succeeded returned the next handler's
\* error.
C3_Witness ==
  \E i \in Requests :
    /\ Returned(i)
    /\ reqs[i].scriptErr = "nil"
    /\ reqs[i].nextRet = "next error"
    /\ reqs[i].ret = "next error"

\* C4: when DoFile fails, ServeHTTP returns that same non-nil error, and the
\* script is attempted exactly once per request.
C4_ScriptErrorSurfaced ==
  \A i \in Requests :
    /\ reqs[i].doFile <= 1
    /\ Returned(i) => reqs[i].doFile = 1
    /\ (Returned(i) /\ reqs[i].scriptErr # "nil")
         => /\ reqs[i].ret = reqs[i].scriptErr
            /\ reqs[i].ret # "nil"

\* C4 witness: a request returned its script's error.
C4_Witness ==
  \E i \in Requests :
    /\ Returned(i)
    /\ reqs[i].scriptErr = "script error"
    /\ reqs[i].ret = "script error"
    /\ reqs[i].doFile = 1

\* The interpreters request i created.
CreatedBy(i) == {k \in 1..Len(interps) : interps[k].creator = i}

\* C5: under every interleaving each request creates exactly one
\* interpreter, no interpreter is used by two requests, and the interpreter
\* is closed exactly once before ServeHTTP returns on every exit path, so
\* none is open once all requests have returned.
C5_InterpreterPerRequest ==
  /\ \A i \in Requests :
       /\ Cardinality(CreatedBy(i)) = (IF reqs[i].pc = "idle" THEN 0 ELSE 1)
       /\ reqs[i].pc # "idle" => CreatedBy(i) = {reqs[i].L}
       /\ reqs[i].pc \in {"return", "returned"}
            => /\ ~interps[reqs[i].L].open
               /\ interps[reqs[i].L].closes = 1
  /\ \A k \in 1..Len(interps) :
       /\ interps[k].users = {interps[k].creator}
       /\ interps[k].closes <= 1
       /\ Len(interps[k].loaded) <= 1
  /\ (\A i \in Requests : Returned(i)) => \A k \in 1..Len(interps) : ~interps[k].open

\* C5 witness: all requests returned, one by each exit path where the bound
\* allows, while another request's interpreter had been open concurrently.
C5_Witness ==
  /\ \A i \in Requests : Returned(i)
  /\ Len(interps) = NumRequests
  /\ \E i, j \in Requests :
       /\ reqs[i].scriptErr # "nil"
       /\ reqs[j].scriptErr = "nil"
       /\ reqs[j].nextRet # "nil"
       /\ reqs[i].L > reqs[j].L
  /\ \A k \in 1..Len(interps) : interps[k].closes = 1

\* C9: the interpreter ServeHTTP creates is constructed with the configured
\* call_stack_size, registry_size, registry_max_size, registry_grow_step and
\* minimize_stack_memory.
C9_KnobsGovernInterpreter ==
  \A k \in 1..Len(interps) :
    /\ l.CallStackSize # 0 => interps[k].opts.CallStackSize = l.CallStackSize
    /\ l.RegistrySize # 0 => interps[k].opts.RegistrySize = l.RegistrySize
    /\ l.RegistryMaxSize # 0 => interps[k].opts.RegistryMaxSize = l.RegistryMaxSize
    /\ l.RegistryGrowStep # 0 => interps[k].opts.RegistryGrowStep = l.RegistryGrowStep
    /\ l.MinimizeStackMemory => interps[k].opts.MinimizeStackMemory

====
